---- MODULE Spec2Model ----
(***************************************************************************)
(* The chat route of compy-ai-backend: the POST handler with its rate      *)
(* limiter, the searchProducts tool with its filter translation, the       *)
(* request sent to the search backend and the compression of its answer;   *)
(* the turn of a conversation driven by the chat page; the middleware in   *)
(* front of the API routes; and the script that prepares the catalogue for *)
(* the vector index.                                                       *)
(*                                                                         *)
(* JavaScript strings are sequences of tokens (TLA+ strings): "a&&b" is    *)
(* <<"a", "&&", "b">>, the empty string is <<>>.  Time is Date.now() in    *)
(* milliseconds.                                                           *)
(***************************************************************************)
EXTENDS Integers, Sequences, FiniteSets, Bags, TLC

VARIABLES
  now,       \* Date.now()
  store,     \* the limiter's state: per identifier, admissions per timestamp
  route,     \* the version of the chat route that is deployed
  inflight   \* the bag of requests being handled

vars == <<now, store, route, inflight>>

-----------------------------------------------------------------------------
(* Bounds of the model *)

MaxInFlight == 2
MaxTicks == 2
TickMs == 30000

(* Program constants *)

Tokens == 20
WindowMs == 60000

TimeSet == {k * TickMs : k \in 0..MaxTicks}

(* An optional value: absent (undefined), or present with a value *)
Absent == <<>>
Some(v) == <<v>>
IsPresent(o) == Len(o) = 1
ValueOf(o) == o[1]
Optional(S) == {Absent} \cup {Some(v) : v \in S}

-----------------------------------------------------------------------------
(* Strings *)

Digit == <<"0", "1", "2", "3", "4", "5", "6", "7", "8", "9">>

RECURSIVE NumberToString(_)
NumberToString(n) ==
  IF n < 0 THEN <<"-">> \o NumberToString(0 - n)
  ELSE IF n < 10 THEN <<Digit[n + 1]>>
  ELSE NumberToString(n \div 10) \o <<Digit[(n % 10) + 1]>>

DigitValue(d) == CHOOSE k \in 0..9 : Digit[k + 1] = d

RECURSIVE ParseInt(_)
ParseInt(s) ==
  IF Len(s) = 1 THEN DigitValue(s[1])
  ELSE 10 * ParseInt(SubSeq(s, 1, Len(s) - 1)) + DigitValue(s[Len(s)])

RECURSIVE Join(_, _)
Join(items, sep) ==
  IF Len(items) = 0 THEN <<>>
  ELSE IF Len(items) = 1 THEN items[1]
  ELSE items[1] \o <<sep>> \o Join(Tail(items), sep)

RECURSIVE Split(_, _)
Split(s, sep) ==
  IF \A i \in 1..Len(s) : s[i] # sep THEN <<s>>
  ELSE LET i == CHOOSE j \in 1..Len(s) :
                  s[j] = sep /\ \A k \in 1..(j - 1) : s[k] # sep
       IN <<SubSeq(s, 1, i - 1)>> \o Split(SubSeq(s, i + 1, Len(s)), sep)

(* new Date(ms).toISOString() *)
toISOString(ms) == <<"date">> \o NumberToString(ms)

(* Math.ceil(x / 1000) *)
CeilSeconds(x) == 0 - ((0 - x) \div 1000)

-----------------------------------------------------------------------------
(* The rate limiter: Ratelimit.slidingWindow(20, "1 m") *)

RECURSIVE SumOver(_, _)
SumOver(f, S) ==
  IF S = {} THEN 0
  ELSE LET s == CHOOSE x \in S : TRUE IN f[s] + SumOver(f, S \ {s})

InWindow(t) == {s \in TimeSet : s > t - WindowMs /\ s <= t}

WindowCount(log, t) == SumOver(log, InWindow(t))

Oldest(log, t) ==
  CHOOSE s \in InWindow(t) : log[s] > 0 /\ \A u \in InWindow(t) : log[u] > 0 => s <= u

EmptyLog == [s \in TimeSet |-> 0]

AdmitTest_OffByOne(used) == used <= Tokens

AdmitTest(used) == used < Tokens

Increment_Lost(log, t) == IF log[t] > 0 THEN log ELSE [log EXCEPT ![t] = 1]

Increment(log, t) == [log EXCEPT ![t] = @ + 1]

limit(log, t) ==
  LET used == WindowCount(log, t)
      newLog == Increment(log, t)
  IN IF AdmitTest(used)
     THEN [log |-> newLog,
           res |-> [success |-> TRUE, limit |-> Tokens,
                    remaining |-> Tokens - (used + 1),
                    reset |-> Oldest(newLog, t) + WindowMs]]
     ELSE [log |-> log,
           res |-> [success |-> FALSE, limit |-> Tokens, remaining |-> 0,
                    reset |-> Oldest(log, t) + WindowMs]]

Expire(log, t) == [s \in TimeSet |-> IF s \in InWindow(t) THEN log[s] ELSE 0]

-----------------------------------------------------------------------------
(* The POST handler: client identity and the 429 response *)

NoHeader == "null"
ForwardedFor == {NoHeader}
UserAgent == {NoHeader}

Identifier(ip, userAgent) ==
  <<IF ip = NoHeader THEN "anonymous" ELSE ip, ":",
    IF userAgent = NoHeader THEN "unknown" ELSE userAgent>>

Identifiers == {Identifier(ip, ua) : ip \in ForwardedFor, ua \in UserAgent}

TooManyRequests_WrongHeader(res, t) ==
  [status |-> 429,
   body |-> [error |-> "Too many requests",
             limit |-> res.limit,
             remaining |-> res.remaining,
             reset |-> toISOString(res.reset),
             resetSeconds |-> CeilSeconds(res.reset - t)],
   headers |-> [ContentType |-> "application/json",
                XRateLimitLimit |-> NumberToString(res.limit),
                XRateLimitRemaining |-> NumberToString(res.limit),
                XRateLimitReset |-> toISOString(res.reset)]]

TooManyRequests_Elapsed(res, t) ==
  [status |-> 429,
   body |-> [error |-> "Too many requests",
             limit |-> res.limit,
             remaining |-> res.remaining,
             reset |-> toISOString(res.reset),
             resetSeconds |-> CeilSeconds(t - res.reset)],
   headers |-> [ContentType |-> "application/json",
                XRateLimitLimit |-> NumberToString(res.limit),
                XRateLimitRemaining |-> NumberToString(res.remaining),
                XRateLimitReset |-> toISOString(res.reset)]]

TooManyRequests(res, t) ==
  [status |-> 429,
   body |-> [error |-> "Too many requests",
             limit |-> res.limit,
             remaining |-> res.remaining,
             reset |-> toISOString(res.reset),
             resetSeconds |-> CeilSeconds(res.reset - t)],
   headers |-> [ContentType |-> "application/json",
                XRateLimitLimit |-> NumberToString(res.limit),
                XRateLimitRemaining |-> NumberToString(res.remaining),
                XRateLimitReset |-> toISOString(res.reset)]]

-----------------------------------------------------------------------------
(* The searchProducts tool: parameters, filter translation, backend request *)

Queries == {<<>>, <<"televisor led 55">>}
Brands == {<<>>, <<"LG">>, <<"LG", "&&", "top", ":", "true">>}
Prices == {0, 500, 1000}

(* What the model may put in a tool call: any field may be absent. *)
ToolArgs ==
  [query : Optional(Queries), brand : Optional(Brands),
   priceMax : Optional(Prices), priceMin : Optional(Prices)]

(* The tool call of the requests that run beside the rate limiter *)
ChatArgs ==
  {[query |-> Some(<<"televisor led 55">>), brand |-> Absent,
    priceMax |-> Some(1000), priceMin |-> Absent]}

(* z.object({...}): query is required, unknown keys are stripped. *)
ParametersValid(raw) == IsPresent(raw.query)

Parameters(rt, raw) ==
  IF rt = "part_003"
  THEN [query |-> ValueOf(raw.query), brand |-> Absent,
        priceMax |-> raw.priceMax, priceMin |-> raw.priceMin]
  ELSE [query |-> ValueOf(raw.query), brand |-> raw.brand,
        priceMax |-> raw.priceMax, priceMin |-> Absent]

(* if (x) for an optional number, an optional string *)
TruthyNumber(x) == IsPresent(x) /\ ValueOf(x) # 0
TruthyString(x) == IsPresent(x) /\ Len(ValueOf(x)) > 0

PriceClause(op, x) == <<"bestprice", ":", op>> \o NumberToString(ValueOf(x))
BrandClause(x) == <<"brand", ":">> \o ValueOf(x)

(* part_003: priceMax, then priceMin *)
queryByItems(a) ==
  LET i1 == IF TruthyNumber(a.priceMax)
            THEN <<PriceClause("<", a.priceMax)>> ELSE <<>>
  IN IF TruthyNumber(a.priceMin)
     THEN Append(i1, PriceClause(">", a.priceMin)) ELSE i1

queryByItemsBrand_PriceFirst(a) ==
  LET i1 == IF TruthyNumber(a.priceMax)
            THEN <<PriceClause("<", a.priceMax)>> ELSE <<>>
  IN IF TruthyString(a.brand) THEN Append(i1, BrandClause(a.brand)) ELSE i1

(* part_002: brand, then priceMax *)
queryByItemsBrand(a) ==
  LET i1 == IF TruthyString(a.brand) THEN <<BrandClause(a.brand)>> ELSE <<>>
  IN IF TruthyNumber(a.priceMax)
     THEN Append(i1, PriceClause("<", a.priceMax)) ELSE i1

SetFilterBy(params, items) ==
  IF Len(items) > 0 THEN ("filter_by" :> Join(items, "&&")) @@ params
  ELSE params

SortBy == <<"top", ":", "desc", ",", "percent_offer", ":", "desc">>
PerPage == <<"1", "0">>
QueryBy == <<"title_infix", ",", "combined_text">>

QueryByWeights_Swapped == <<"2", ",", "3">>

QueryByWeights == <<"3", ",", "2">>

searchParams(rt, a) ==
  IF rt = "part_003"
  THEN SetFilterBy([q |-> a.query,
                    query_by |-> QueryBy,
                    query_by_weights |-> QueryByWeights,
                    sort_by |-> SortBy,
                    per_page |-> PerPage],
                   queryByItems(a))
  ELSE SetFilterBy([q |-> a.query,
                    query_by |-> <<"title", ",", "repmodel">>,
                    sort_by |-> SortBy,
                    per_page |-> PerPage],
                   queryByItemsBrand(a))

SearchRequest(rt, a) ==
  [method |-> "GET",
   collection |-> IF rt = "part_003" THEN "products" ELSE "products2",
   params |-> searchParams(rt, a)]

-----------------------------------------------------------------------------
(* The documents of the search backend.  title, brand, repmodel, bestprice,  *)
(* images, stores, topstore, url_compy and url are optional properties of a  *)
(* document; attrs are its other properties in Object.keys order, each a key *)
(* (a sequence of characters) with a value.                                  *)

MaxHits == 2

Unspecified == <<"NO ESPECIFICA">>

Attr(key, value) == [key |-> key, value |-> value]

Attrs ==
  {Attr(<<"f", ".", "t", "v">>, <<"OLED">>),
   Attr(<<"f", ".", "t", "v">>, <<"no especifica">>),
   Attr(<<"f", ".", "h", "z">>, Unspecified),
   Attr(<<"f", ".", "h", "z">>, <<"120">>),
   Attr(<<"s", "k", "u">>, <<"A1">>),
   Attr(<<"x", "f", ".">>, Unspecified)}

(* The property lists of a document: keys are distinct. *)
AttrLists ==
  {<<>>} \cup {<<a>> : a \in Attrs}
    \cup {l \in Attrs \X Attrs : l[1].key = <<"f", ".", "t", "v">> /\ l[2].key # l[1].key}

ImageLists ==
  {<<>>, << <<"http://img/1">> >>, << <<"http://img/1">>, <<"http://img/2">> >>,
   << <<>>, <<"http://img/2">> >>}

StoreLists == {<<>>, << <<"Ripley">> >>, << <<"Ripley">>, <<"Falabella">> >>}

TopStores == {<<"Hiraoka">>}

BaseDocument ==
  [title |-> Some(<<"TV LG 55">>), brand |-> Some(<<"LG">>),
   repmodel |-> Some(<<"55UQ80">>), bestprice |-> Some(1299), attrs |-> <<>>,
   images |-> Absent, stores |-> Absent, topstore |-> Absent,
   url_compy |-> Absent, url |-> Some(<<"http://api/p/1">>)]

(* A document with no property at all *)
EmptyDocument ==
  [title |-> Absent, brand |-> Absent, repmodel |-> Absent, bestprice |-> Absent,
   attrs |-> <<>>, images |-> Absent, stores |-> Absent, topstore |-> Absent,
   url_compy |-> Absent, url |-> Absent]

Documents ==
  {EmptyDocument}
    \cup {[BaseDocument EXCEPT !.attrs = l] : l \in AttrLists}
    \cup {[BaseDocument EXCEPT !.images = i] : i \in Optional(ImageLists)}
    \cup {[BaseDocument EXCEPT !.stores = s, !.topstore = t] :
            s \in Optional(StoreLists), t \in Optional(TopStores)}
    \cup {[BaseDocument EXCEPT !.url_compy = c, !.url = u] :
            c \in Optional({<<>>, <<"http://compy.pe/p/1">>}),
            u \in Optional({<<"http://api/p/1">>})}
    \cup {[BaseDocument EXCEPT !.title = Some(<<"TV", " | ", "LG">>)]}

Hit(doc) == [document |-> doc]

HitLists(n) == UNION {[1..k -> {Hit(d) : d \in Documents}] : k \in 0..n}

(* The body of a search result: what compressProductData reads of it *)
SearchResult(q, found, hits) ==
  [found |-> found, hits |-> hits, page |-> 1, request_params |-> [q |-> q]]

(* A full page: per_page hits, out of found documents *)
FullPages(q, perPage) ==
  {SearchResult(q, found, [i \in 1..perPage |-> Hit(d)]) :
     found \in {perPage, perPage + 15},
     d \in {BaseDocument, [BaseDocument EXCEPT !.images = Some(<< <<"http://img/1">> >>)]}}

Ok(data) == [status |-> 200, json |-> TRUE, data |-> data]

(* What fetch resolves with: a status and a body.  A search is answered with *)
(* status 200 and a result that echoes the query, on page 1 as no page is    *)
(* asked for, and whose hits are the first per_page documents found.  Any    *)
(* other status carries a message, or a body that is not JSON.               *)
Failures ==
  {[status |-> st, json |-> TRUE, data |-> [message |-> <<"Not Ready or Lagging">>]] :
     st \in {404, 503}}
    \cup {[status |-> 502, json |-> FALSE]}

(* The answers to one request: any result of up to MaxHits hits, a full page *)
Answers(req) ==
  LET q == req.params["q"]
      perPage == ParseInt(req.params["per_page"])
  IN {Ok(SearchResult(q, Len(h), h)) : h \in HitLists(MaxHits)}
       \cup {Ok(d) : d \in FullPages(q, perPage)} \cup Failures

(* The answers the tool's own state machine goes through *)
ToolAnswers(req) ==
  LET q == req.params["q"]
  IN {Ok(SearchResult(q, 0, <<>>)), Ok(SearchResult(q, 1, <<Hit(BaseDocument)>>))}
       \cup Failures

(* The answer to the requests that run beside the rate limiter *)
ChatAnswers(req) == {Ok(SearchResult(req.params["q"], 0, <<>>))}

-----------------------------------------------------------------------------
(* compressProductData and formatAsMarkdown (parse-search-results.js) *)

startsWith(s, prefix) == Len(s) >= Len(prefix) /\ SubSeq(s, 1, Len(prefix)) = prefix
substring(s, n) == SubSeq(s, n + 1, Len(s))

(* `${x}` for an optional string, an optional number *)
TemplateString(x) == IF IsPresent(x) THEN ValueOf(x) ELSE <<"undefined">>
TemplateNumber(x) == IF IsPresent(x) THEN NumberToString(ValueOf(x)) ELSE <<"undefined">>

IsFeature_AnyValue(a) == startsWith(a.key, <<"f", ".">>)

(* key.startsWith('f.') && doc[key] !== 'NO ESPECIFICA'; the keys of the     *)
(* named properties do not start with 'f.'                                   *)
IsFeature(a) == startsWith(a.key, <<"f", ".">>) /\ a.value # Unspecified

(* `${key.substring(2)}: ${doc[key]}` *)
FeatureEntry(a) == substring(a.key, 2) \o <<": ">> \o a.value

features(doc) ==
  LET f == SelectSeq(doc.attrs, IsFeature)
  IN Join([i \in 1..Len(f) |-> FeatureEntry(f[i])], ", ")

firstImage_Last(doc) ==
  IF IsPresent(doc.images) /\ Len(ValueOf(doc.images)) > 0
  THEN ValueOf(doc.images)[Len(ValueOf(doc.images))] ELSE <<>>

firstImage(doc) ==
  IF IsPresent(doc.images) /\ Len(ValueOf(doc.images)) > 0
  THEN ValueOf(doc.images)[1] ELSE <<>>

(* doc.stores ? doc.stores.join(', ') : (doc.topstore || ''): an array is    *)
(* truthy, the empty one too                                                 *)
storesList(doc) ==
  IF IsPresent(doc.stores) THEN Join(ValueOf(doc.stores), ", ")
  ELSE IF TruthyString(doc.topstore) THEN ValueOf(doc.topstore) ELSE <<>>

(* doc.url_compy || doc.url *)
productUrl(doc) == IF TruthyString(doc.url_compy) THEN doc.url_compy ELSE doc.url

product(hit) ==
  LET doc == hit.document
  IN [title |-> doc.title, brand |-> doc.brand, model |-> doc.repmodel,
      price |-> doc.bestprice, features |-> features(doc),
      image |-> firstImage(doc), stores |-> storesList(doc),
      url |-> productUrl(doc)]

products_Placeholder(data) ==
  IF Len(data.hits) = 0 THEN <<product(Hit(BaseDocument))>>
  ELSE [i \in 1..Len(data.hits) |-> product(data.hits[i])]

products_Reversed(data) ==
  [i \in 1..Len(data.hits) |-> product(data.hits[Len(data.hits) + 1 - i])]

products(data) == [i \in 1..Len(data.hits) |-> product(data.hits[i])]

summary_ShownAsFound(data) ==
  [total_found |-> Len(data.hits), results_count |-> Len(data.hits),
   search_query |-> data.request_params.q, page |-> data.page]

summary(data) ==
  [total_found |-> data.found, results_count |-> Len(data.hits),
   search_query |-> data.request_params.q, page |-> data.page]

imageCell(p) == IF Len(p.image) > 0 THEN <<"![Image](">> \o p.image \o <<")">> ELSE <<>>

MarkdownRow(p) ==
  <<"| ">> \o TemplateString(p.title) \o <<" | ">> \o TemplateString(p.brand)
    \o <<" | ">> \o TemplateString(p.model) \o <<" | ">> \o TemplateNumber(p.price)
    \o <<" | ">> \o p.features \o <<" | ">> \o imageCell(p)
    \o <<" | ">> \o p.stores \o <<" |\n">>

RECURSIVE MarkdownRows(_)
MarkdownRows(ps) ==
  IF Len(ps) = 0 THEN <<>> ELSE MarkdownRow(Head(ps)) \o MarkdownRows(Tail(ps))

formatAsMarkdown(ps, sm) ==
  <<"## Product Search Results\n">>
    \o <<"*Query: \"">> \o sm.search_query \o <<"\" - Found: ">>
    \o NumberToString(sm.total_found) \o <<" (Page ">> \o NumberToString(sm.page)
    \o <<")*\n\n">>
    \o <<"| Title | Brand | Model | Price | Features | Image | Stores |\n">>
    \o <<"|-------|-------|-------|-------|----------|-------|--------|\n">>
    \o MarkdownRows(ps)

(* data.hits.map(...) throws a TypeError when data has no hits *)
compressThrows(data) == "hits" \notin DOMAIN data

compressProductData(data) == formatAsMarkdown(products(data), summary(data))

-----------------------------------------------------------------------------
(* The POST handler.  A request is one invocation of POST: pc is the await   *)
(* it is suspended at, or the terminal state it ended in; lim holds the      *)
(* limiter's answer until the admission branch is taken; allowed remembers   *)
(* what the limiter answered; parsed, modelCalls and sent record what the    *)
(* handler has done for the request; at is the time of its limiter call,     *)
(* kept like lim until the branch is left behind, and respondedAt the time   *)
(* its 429 response was built; answer is what fetch resolved with, and       *)
(* output what the tool returned; messages is the conversation of the        *)
(* request's body, streamed the parts written to its response stream so far, *)
(* and connected whether the caller is still reading the response.           *)

NewRequest(ip, ua) ==
  [pc |-> "AdmissionCheck", identifier |-> Identifier(ip, ua), at |-> Absent,
   lim |-> Absent, allowed |-> "unknown", parsed |-> FALSE, modelCalls |-> 0,
   args |-> Absent, sent |-> <<>>, response |-> Absent, respondedAt |-> Absent,
   answer |-> Absent, output |-> Absent, messages |-> <<"user">>,
   streamed |-> <<>>, connected |-> TRUE]

Requests == BagToSet(inflight)

Becomes(q, q2) == inflight' = (inflight (-) SetToBag({q})) (+) SetToBag({q2})

Init ==
  /\ now = 0
  /\ store = [id \in Identifiers |-> EmptyLog]
  /\ route = "part_003"
  /\ inflight = EmptyBag

(* The clock advances; entries older than the window expire. *)
Tick ==
  /\ now + TickMs \in TimeSet
  /\ now' = now + TickMs
  /\ store' = [id \in Identifiers |-> Expire(store[id], now + TickMs)]
  /\ UNCHANGED <<route, inflight>>

(* A request arrives: lines 22-26 *)
Receive ==
  /\ BagCardinality(inflight) < MaxInFlight
  /\ \E ip \in ForwardedFor, ua \in UserAgent :
       inflight' = inflight (+) SetToBag({NewRequest(ip, ua)})
  /\ UNCHANGED <<now, store, route>>

(* const { success, limit, reset, remaining, pending } = ...: on success the *)
(* handler reads success alone, and the model keeps no more of the answer.   *)
Destructure(res) == IF res.success THEN [success |-> TRUE] ELSE res

(* await ratelimit.limit(identifier) answers *)
Limit(q) ==
  /\ q.pc = "AdmissionCheck"
  /\ LET out == limit(store[q.identifier], now) IN
       /\ store' = [store EXCEPT ![q.identifier] = out.log]
       /\ Becomes(q, [q EXCEPT !.pc = "Limited", !.at = Some(now),
                               !.lim = Some(Destructure(out.res)),
                               !.allowed = IF out.res.success THEN "yes" ELSE "no"])
  /\ UNCHANGED <<now, route>>

LimitThrows_FailOpen(q) ==
  /\ q.pc = "AdmissionCheck"
  /\ Becomes(q, [q EXCEPT !.pc = "ModelTurn"])
  /\ UNCHANGED <<now, store, route>>

(* await ratelimit.limit(identifier) rejects: the backing store failed *)
LimitThrows(q) ==
  /\ q.pc = "AdmissionCheck"
  /\ Becomes(q, [q EXCEPT !.pc = "Failed"])
  /\ UNCHANGED <<now, store, route>>

Proceeds_Always(res) == TRUE

Proceeds(res) == res.success

(* if (!success) return new Response(..., { status: 429 }) *)
Reject(q) ==
  /\ q.pc = "Limited"
  /\ ~Proceeds(ValueOf(q.lim))
  /\ Becomes(q, [q EXCEPT !.pc = "Rejected", !.respondedAt = Some(now),
                          !.response = Some(TooManyRequests(ValueOf(q.lim), now))])
  /\ UNCHANGED <<now, store, route>>

(* const { messages } = await req.json() *)
ParseBody(q) ==
  /\ q.pc = "Limited"
  /\ Proceeds(ValueOf(q.lim))
  /\ \E ok \in BOOLEAN :
       Becomes(q, [q EXCEPT !.pc = IF ok THEN "ModelTurn" ELSE "Failed",
                            !.parsed = TRUE, !.lim = Absent, !.at = Absent])
  /\ UNCHANGED <<now, store, route>>

(* streamText: the model answers without a tool call *)
ModelAnswers(q) ==
  /\ q.pc = "ModelTurn"
  /\ Becomes(q, [q EXCEPT !.pc = "Completed", !.modelCalls = @ + 1,
                          !.streamed = Append(@, "text")])
  /\ UNCHANGED <<now, store, route>>

(* streamText: the model provider fails; toDataStreamResponse writes an      *)
(* error part and onError logs the error.                                    *)
ModelThrows(q) ==
  /\ q.pc = "ModelTurn"
  /\ Becomes(q, [q EXCEPT !.pc = "Failed", !.modelCalls = @ + 1,
                          !.streamed = Append(@, "error")])
  /\ UNCHANGED <<now, store, route>>

(* streamText: the model calls searchProducts with arguments from A; they    *)
(* are parsed with the tool's parameters schema.                             *)
ModelCallsTool(q, A) ==
  /\ q.pc = "ModelTurn"
  /\ \E raw \in A :
       IF ParametersValid(raw)
       THEN Becomes(q, [q EXCEPT !.pc = "ToolInvocation", !.modelCalls = @ + 1,
                                 !.args = Some(Parameters(route, raw)),
                                 !.streamed = Append(@, "tool-call")])
       ELSE Becomes(q, [q EXCEPT !.pc = "Failed", !.modelCalls = @ + 1,
                                 !.streamed = Append(@, "error")])
  /\ UNCHANGED <<now, store, route>>

execute_NoAwait(q) ==
  /\ q.pc = "ToolInvocation"
  /\ Becomes(q, [q EXCEPT !.pc = "ModelTurn",
                          !.sent = Append(@, SearchRequest(route, ValueOf(q.args)))])
  /\ UNCHANGED <<now, store, route>>

(* searchProducts.execute up to await fetch(...) *)
execute(q) ==
  /\ q.pc = "ToolInvocation"
  /\ Becomes(q, [q EXCEPT !.pc = "AwaitSearch",
                          !.sent = Append(@, SearchRequest(route, ValueOf(q.args)))])
  /\ UNCHANGED <<now, store, route>>

(* return compressProductData(data) in part_003, return data in part_002 *)
toolResult(rt, data) ==
  IF rt = "part_003" THEN [markdown |-> compressProductData(data)]
  ELSE [data |-> data]

(* The request q's tool is waiting on *)
Sent(q) == q.sent[Len(q.sent)]

(* fetch resolves with one of the answers A to the request sent, the body is *)
(* parsed with await response.json(), which throws when it is not JSON, and  *)
(* the tool returns its result; response.ok and response.status are not      *)
(* read.                                                                     *)
SearchReturns(q, A) ==
  /\ q.pc = "AwaitSearch"
  /\ \E r \in A :
       IF ~r.json \/ (route = "part_003" /\ compressThrows(r.data))
       THEN Becomes(q, [q EXCEPT !.pc = "Failed", !.answer = Some(r),
                                 !.streamed = Append(@, "error")])
       ELSE Becomes(q, [q EXCEPT !.pc = "Completed", !.answer = Some(r),
                                 !.output = Some(toolResult(route, r.data)),
                                 !.streamed = Append(@, "tool-result")])
  /\ UNCHANGED <<now, store, route>>

SearchThrows_Swallowed(q) ==
  /\ q.pc = "AwaitSearch"
  /\ Becomes(q, [q EXCEPT !.pc = "Completed", !.output = Some([markdown |-> <<>>]),
                          !.streamed = Append(@, "tool-result")])
  /\ UNCHANGED <<now, store, route>>

(* fetch rejects *)
SearchThrows(q) ==
  /\ q.pc = "AwaitSearch"
  /\ Becomes(q, [q EXCEPT !.pc = "Failed", !.streamed = Append(@, "error")])
  /\ UNCHANGED <<now, store, route>>

(* The response has been delivered and the invocation is over. *)
Close(q) ==
  /\ q.pc \in {"Rejected", "Completed", "Failed"}
  /\ inflight' = inflight (-) SetToBag({q})
  /\ UNCHANGED <<now, store, route>>

Next ==
  \/ Tick
  \/ Receive
  \/ \E q \in Requests : Limit(q)
  \/ \E q \in Requests : LimitThrows(q)
  \/ \E q \in Requests : Reject(q)
  \/ \E q \in Requests : ParseBody(q)
  \/ \E q \in Requests : ModelAnswers(q)
  \/ \E q \in Requests : ModelThrows(q)
  \/ \E q \in Requests : ModelCallsTool(q, ChatArgs)
  \/ \E q \in Requests : execute(q)
  \/ \E q \in Requests : SearchReturns(q, ChatAnswers(Sent(q)))
  \/ \E q \in Requests : SearchThrows(q)
  \/ \E q \in Requests : Close(q)

Spec == Init /\ [][Next]_vars

(* One admitted request at its model turn, on either version of the route;  *)
(* the model may call the tool with any arguments.                          *)
AdmittedRequest ==
  [NewRequest(NoHeader, NoHeader) EXCEPT !.pc = "ModelTurn", !.allowed = "yes",
                                         !.parsed = TRUE]

ToolInit ==
  /\ now = 0
  /\ store = [id \in Identifiers |-> [EmptyLog EXCEPT ![0] = 1]]
  /\ route \in {"part_003", "part_002"}
  /\ inflight = SetToBag({AdmittedRequest})

ToolNext ==
  \/ \E q \in Requests : ModelCallsTool(q, ToolArgs)
  \/ \E q \in Requests : execute(q)
  \/ \E q \in Requests : SearchReturns(q, ToolAnswers(Sent(q)))
  \/ \E q \in Requests : SearchThrows(q)

ToolSpec == ToolInit /\ [][ToolNext]_vars

(* One request whose tool has sent its search, on either version of the     *)
(* route; the backend may answer with any result.                           *)
SearchingRequest(rt) ==
  LET a == Parameters(rt, CHOOSE raw \in ChatArgs : TRUE)
  IN [AdmittedRequest EXCEPT !.pc = "AwaitSearch", !.modelCalls = 1,
                             !.args = Some(a), !.sent = <<SearchRequest(rt, a)>>,
                             !.streamed = <<"tool-call">>]

CompressInit ==
  /\ now = 0
  /\ store = [id \in Identifiers |-> [EmptyLog EXCEPT ![0] = 1]]
  /\ route \in {"part_003", "part_002"}
  /\ inflight = SetToBag({SearchingRequest(route)})

CompressNext ==
  \/ \E q \in Requests : SearchReturns(q, Answers(Sent(q)))
  \/ \E q \in Requests : SearchThrows(q)

CompressSpec == CompressInit /\ [][CompressNext]_vars

-----------------------------------------------------------------------------
(* The script that prepares the products of the catalogue for the vector     *)
(* index (labs/generate-markdown.ts).  A product being prepared is held in   *)
(* inflight like a request: pc is "Product" before the call of               *)
(* generateProductForEmbedding and "Embedded" after it.  Only the price and  *)
(* the metrics of a product are modelled.                                    *)

Amounts == {800, 900, 1000}
Savings == {0, 25}

Metrics == [prev_price : Amounts, price_minimum : Amounts, percent_save : Savings]

EnhancedProducts == [bestprice : Amounts, metrics : Optional(Metrics)]

(* n.toFixed(2) of a whole number *)
toFixed(n) == NumberToString(n) \o <<".", "0", "0">>

(* The price lines of the markdown context: lines 223-236 *)
priceLines(p) ==
  <<"**Price**: S/ ">> \o toFixed(p.bestprice) \o <<"\n">>
  \o (IF IsPresent(p.metrics)
      THEN LET metrics == ValueOf(p.metrics) IN
             (IF metrics.prev_price # p.bestprice
              THEN <<"**Previous Price**: S/ ">> \o toFixed(metrics.prev_price) \o <<"\n">>
              ELSE <<>>)
             \o (IF metrics.price_minimum < p.bestprice
                 THEN <<"**Lowest Price**: S/ ">> \o toFixed(metrics.price_minimum) \o <<"\n">>
                 ELSE <<>>)
             \o (IF metrics.percent_save > 0
                 THEN <<"**Save**: ">> \o toFixed(metrics.percent_save) \o <<"%", "\n">>
                 ELSE <<>>)
      ELSE <<>>)

(* metadata.price_history: lines 371-378 *)
priceHistory(p) ==
  IF IsPresent(p.metrics)
  THEN LET metrics == ValueOf(p.metrics) IN
         Some([current |-> p.bestprice, previous |-> metrics.prev_price,
               minimum |-> metrics.price_minimum,
               percent_save |-> metrics.percent_save])
  ELSE Absent

generateProductForEmbedding(p) ==
  [metadata |-> [price |-> p.bestprice, price_history |-> priceHistory(p)],
   context |-> priceLines(p)]

EmbedInit ==
  /\ now = 0
  /\ store = [id \in Identifiers |-> EmptyLog]
  /\ route = "part_003"
  /\ \E p \in EnhancedProducts :
       inflight = SetToBag({[pc |-> "Product", product |-> p, embedded |-> Absent]})

(* products.map(generateProductForEmbedding): line 527 *)
Embed(q) ==
  /\ q.pc = "Product"
  /\ Becomes(q, [q EXCEPT !.pc = "Embedded",
                          !.embedded = Some(generateProductForEmbedding(q.product))])
  /\ UNCHANGED <<now, store, route>>

EmbedNext == \E q \in Requests : Embed(q)

EmbedSpec == EmbedInit /\ [][EmbedNext]_vars

-----------------------------------------------------------------------------
(* The turn of a conversation.  The route runs one model step for each POST; *)
(* the chat page (useChat with maxSteps) posts the conversation again when   *)
(* the response ended with the result of a tool call, until the model        *)
(* answers without a tool call or the steps are used up.  A request record   *)
(* then stands for the turn: modelCalls and sent count over the whole turn,  *)
(* the other fields belong to the POST in progress.                          *)

MaxSteps == 3

(* The rounds of tool calls made in the turn *)
Rounds(q) == Len(q.sent)

(* The last part of the response is the result of a tool call *)
HasToolResult(parts) == Len(parts) > 0 /\ parts[Len(parts)] = "tool-result"

StepsLeft_OneMore(q) == Rounds(q) <= MaxSteps

(* The steps of the turn are not used up *)
StepsLeft(q) == Rounds(q) < MaxSteps

(* The chat page goes on with the turn *)
Continues(q) ==
  /\ q.pc = "Completed"
  /\ q.connected
  /\ HasToolResult(q.streamed)
  /\ StepsLeft(q)

Resubmit_Uncounted(q) ==
  /\ Continues(q)
  /\ Becomes(q, [q EXCEPT !.pc = "ModelTurn", !.args = Absent, !.answer = Absent,
                          !.output = Absent, !.streamed = <<>>,
                          !.sent = <<>>, !.modelCalls = 0])
  /\ UNCHANGED <<now, store, route>>

(* The chat page posts the conversation again, with the parts of the         *)
(* response as its last message.                                             *)
Resubmit(q) ==
  /\ Continues(q)
  /\ Becomes(q, [q EXCEPT !.pc = "AdmissionCheck", !.allowed = "unknown",
                          !.parsed = FALSE, !.args = Absent, !.answer = Absent,
                          !.output = Absent, !.messages = @ \o q.streamed,
                          !.streamed = <<>>])
  /\ UNCHANGED <<now, store, route>>

(* The caller stops reading the response (the stop button of the page, or    *)
(* the connection is lost).  The route passes no abort signal to streamText  *)
(* or to fetch, and the tool's execute does not read the one it is given.    *)
Disconnect(q) ==
  /\ q.pc \in {"ModelTurn", "ToolInvocation", "AwaitSearch"}
  /\ q.connected
  /\ Becomes(q, [q EXCEPT !.connected = FALSE])
  /\ UNCHANGED <<now, store, route>>

(* One turn, from an identity that has two admissions left in its window *)
TurnInit ==
  /\ now = 0
  /\ store = [id \in Identifiers |-> [EmptyLog EXCEPT ![0] = Tokens - 2]]
  /\ route = "part_003"
  /\ inflight = SetToBag({NewRequest(NoHeader, NoHeader)})

(* The steps of the route and of the chat page on a request *)
TurnStep ==
  \/ \E q \in Requests : Limit(q)
  \/ \E q \in Requests : LimitThrows(q)
  \/ \E q \in Requests : Reject(q)
  \/ \E q \in Requests : ParseBody(q)
  \/ \E q \in Requests : ModelAnswers(q)
  \/ \E q \in Requests : ModelThrows(q)
  \/ \E q \in Requests : ModelCallsTool(q, ChatArgs)
  \/ \E q \in Requests : execute(q)
  \/ \E q \in Requests : SearchReturns(q, ToolAnswers(Sent(q)))
  \/ \E q \in Requests : SearchThrows(q)
  \/ \E q \in Requests : Resubmit(q)

TurnNext ==
  \/ Tick
  \/ \E q \in Requests : Disconnect(q)
  \/ TurnStep

(* Every await of the route settles (the invocation lasts at most            *)
(* maxDuration), and the page posts again by itself.                         *)
TurnSpec == TurnInit /\ [][TurnNext]_vars /\ WF_vars(TurnStep)

-----------------------------------------------------------------------------
(* The middleware in front of the API routes (part_005, and the copy at the  *)
(* end of parse-search-results.js).  A request passing through it is held in *)
(* inflight: pc is "Middleware" before the call and "Passed" after it, and   *)
(* route is the version of the middleware that is deployed.  An origin is a  *)
(* string, and the headers of a response a function from names to values.    *)

allowedOrigins ==
  <<"http://localhost:5173", "https://compy.cueva.io", "https://dev.compy.pe",
    "https://compy.pe">>

(* What callers send as Origin: nothing, the empty string, a listed origin,  *)
(* or another one                                                            *)
OriginHeaders ==
  Optional({"", "http://localhost:5173", "https://compy.cueva.io",
            "https://dev.compy.pe", "https://compy.pe", "https://evil.example",
            "https://compy.pe.evil.example", "HTTPS://COMPY.PE", "null"})

Methods == {"OPTIONS", "GET", "POST"}

MiddlewareVersions == {"part_005", "parse-search-results.js"}

(* Array.prototype.includes *)
includes(list, x) == \E i \in 1..Len(list) : list[i] = x

(* request.headers.get("origin") || "" *)
originOf(header) == IF IsPresent(header) THEN ValueOf(header) ELSE ""

isAllowedOrigin_NotEmpty(origin) == origin # ""

isAllowedOrigin(origin) == includes(allowedOrigins, origin)

(* new NextResponse(null, { status: 204, headers: {...} }) *)
preflightResponse(version, origin) ==
  [status |-> 204, next |-> FALSE,
   headers |->
     ("Access-Control-Allow-Origin" :>
        (IF isAllowedOrigin(origin) THEN origin ELSE allowedOrigins[1]))
     @@ ("Access-Control-Allow-Methods" :> "GET, POST, PUT, DELETE, OPTIONS")
     @@ ("Access-Control-Allow-Headers" :>
           (IF version = "part_005"
            THEN "Content-Type, Authorization, X-Requested-With"
            ELSE "Content-Type, Authorization"))
     @@ ("Access-Control-Max-Age" :> "86400")
     @@ (IF version = "part_005"
         THEN "Access-Control-Allow-Credentials" :> "true" ELSE <<>>)]

(* NextResponse.next() with the headers the middleware sets on it *)
nextResponse(version, origin) ==
  [status |-> 200, next |-> TRUE,
   headers |->
     IF isAllowedOrigin(origin)
     THEN ("Access-Control-Allow-Origin" :> origin)
          @@ (IF version = "part_005"
              THEN "Access-Control-Allow-Credentials" :> "true" ELSE <<>>)
     ELSE <<>>]

CorsInit ==
  /\ now = 0
  /\ store = [id \in Identifiers |-> EmptyLog]
  /\ route \in MiddlewareVersions
  /\ inflight = EmptyBag

(* A request for a path of the matcher arrives *)
CorsReceive ==
  /\ BagCardinality(inflight) < MaxInFlight
  /\ \E m \in Methods, o \in OriginHeaders :
       inflight' = inflight (+) SetToBag({[pc |-> "Middleware", method |-> m,
                                           origin |-> o, response |-> Absent]})
  /\ UNCHANGED <<now, store, route>>

middleware(q) ==
  /\ q.pc = "Middleware"
  /\ LET origin == originOf(q.origin)
     IN Becomes(q, [q EXCEPT !.pc = "Passed",
                             !.response =
                               Some(IF q.method = "OPTIONS"
                                    THEN preflightResponse(route, origin)
                                    ELSE nextResponse(route, origin))])
  /\ UNCHANGED <<now, store, route>>

CorsNext ==
  \/ CorsReceive
  \/ \E q \in Requests : middleware(q)

CorsSpec == CorsInit /\ [][CorsNext]_vars

-----------------------------------------------------------------------------
(* Properties of the rate limiter and of the admission branch *)

RECURSIVE NumIn(_, _)
NumIn(bag, S) ==
  IF S = {} THEN 0
  ELSE LET q == CHOOSE x \in S : TRUE IN CopiesIn(q, bag) + NumIn(bag, S \ {q})

(* How many requests of identifier id the limiter has answered and the       *)
(* handler has not yet branched on, by answer.                               *)
NumLimited(bag, id, answer) ==
  NumIn(bag, {q \in BagToSet(bag) :
                q.pc = "Limited" /\ q.identifier = id /\ q.allowed = answer})

(* Admissions of id the store holds in the 60 seconds that end at time t *)
AdmittedInMinute(id, t) ==
  SumOver(store[id], {s \in TimeSet : s > t - 60000 /\ s <= t})

Rejected(q) == q.pc = "Rejected"
ResetOf(q) == ValueOf(q.lim).reset
BodyOf(q) == ValueOf(q.response).body
HeadersOf(q) == ValueOf(q.response).headers

(* C1: whenever the limiter answers a call of identity X, the call is        *)
(* admitted if fewer than 20 calls of X were admitted in the 60 seconds up   *)
(* to now, and denied otherwise: the first 20 calls of a window pass, the    *)
(* 21st is denied, and once the window has rolled over (its admissions are   *)
(* older than 60 seconds) a call passes again.                               *)
C1_TwentyPerWindow ==
  [][\A id \in Identifiers :
       LET yes == NumLimited(inflight', id, "yes") - NumLimited(inflight, id, "yes")
           no == NumLimited(inflight', id, "no") - NumLimited(inflight, id, "no")
       IN (yes + no = 1) =>
            IF AdmittedInMinute(id, now) < 20
            THEN yes = 1 /\ AdmittedInMinute(id, now)' = AdmittedInMinute(id, now) + 1
            ELSE no = 1 /\ store' = store]_vars

(* A call was denied with the window full, and a later call of the same      *)
(* identity, made when that window had rolled over, is admitted.             *)
C1_Witness ==
  \E q, r \in Requests :
    /\ Rejected(q) /\ q.allowed = "no"
    /\ r.pc = "Limited" /\ r.allowed = "yes" /\ r.identifier = q.identifier
    /\ ValueOf(r.at) >= ResetOf(q)

(* C2: whatever the interleaving of the requests of one identity, the store  *)
(* never holds more than 20 admissions of it within 60 seconds, and every    *)
(* admitted request still in its window is counted in the store (no update   *)
(* is lost).                                                                 *)
C2_NoLostUpdate ==
  \A id \in Identifiers :
    /\ AdmittedInMinute(id, now) <= 20
    /\ \A s \in TimeSet :
         s > now - 60000 =>
           store[id][s] >= NumIn(inflight, {q \in Requests :
                                   /\ q.identifier = id /\ q.allowed = "yes"
                                   /\ q.at = Some(s)})

(* Two overlapping requests of one identity raced for the last admission of  *)
(* a window: one got it, the other was denied.                               *)
C2_Witness ==
  \E q, r \in Requests :
    /\ q.pc = "Limited" /\ r.pc = "Limited" /\ q.identifier = r.identifier
    /\ q.at = r.at /\ q.allowed = "yes" /\ r.allowed = "no"
    /\ AdmittedInMinute(q.identifier, now) = 20

(* C3: a denied request goes to Rejected and nothing else is done for it: no *)
(* body parse, no model call, no search request; and a request is at or      *)
(* past its model turn only if the limiter allowed that request.             *)
C3_DeniedDoesNothing ==
  \A q \in Requests :
    /\ q.allowed = "no" =>
         /\ q.pc \in {"Limited", "Rejected"}
         /\ ~q.parsed /\ q.modelCalls = 0 /\ q.sent = <<>>
    /\ Rejected(q) => q.allowed = "no"
    /\ (q.pc = "ModelTurn" \/ q.modelCalls > 0 \/ q.parsed \/ q.sent # <<>>)
         => q.allowed = "yes"

C3_Witness ==
  \E q, r \in Requests :
    /\ Rejected(q) /\ q.allowed = "no"
    /\ r.allowed = "yes" /\ r.modelCalls > 0 /\ r.sent # <<>>

(* C4: the response to a denied request has status 429, its body carries     *)
(* limit, remaining = 0 and the reset time as an absolute timestamp, and the *)
(* three X-RateLimit headers are those body fields as strings.               *)
C4_DenialPayload ==
  \A q \in Requests :
    Rejected(q) =>
      /\ ValueOf(q.response).status = 429
      /\ BodyOf(q).limit = 20
      /\ BodyOf(q).remaining = 0
      /\ BodyOf(q).reset = toISOString(ResetOf(q))
      /\ HeadersOf(q).XRateLimitLimit = NumberToString(BodyOf(q).limit)
      /\ HeadersOf(q).XRateLimitRemaining = NumberToString(BodyOf(q).remaining)
      /\ HeadersOf(q).XRateLimitReset = BodyOf(q).reset

C4_Witness ==
  \E q \in Requests :
    /\ Rejected(q)
    /\ HeadersOf(q).XRateLimitLimit = <<"2", "0">>
    /\ HeadersOf(q).XRateLimitRemaining = <<"0">>

(* Date.parse of the body's reset timestamp *)
ResetTime(q) == ParseInt(Tail(BodyOf(q).reset))

(* C5 as stated: a rejection reports remaining = 0 and a reset time later    *)
(* than the time of the request, and so a positive resetSeconds.             *)
C5_Original ==
  \A q \in Requests :
    Rejected(q) =>
      /\ BodyOf(q).remaining = 0
      /\ ResetTime(q) > ValueOf(q.at)
      /\ BodyOf(q).resetSeconds > 0

(* C5 as amended: a rejection reports remaining = 0 and a reset time later   *)
(* than the time of the request's limiter call; resetSeconds counts from the *)
(* time the response is built, and is positive exactly when the response is  *)
(* built before the reset time.                                              *)
C5_ResetInFuture ==
  \A q \in Requests :
    Rejected(q) =>
      /\ BodyOf(q).remaining = 0
      /\ ResetTime(q) > ValueOf(q.at)
      /\ (BodyOf(q).resetSeconds > 0 <=> ValueOf(q.respondedAt) < ResetTime(q))

(* A rejection built at or after its own reset time *)
C5_Witness ==
  \E q \in Requests :
    /\ Rejected(q)
    /\ ValueOf(q.respondedAt) >= ResetTime(q)
    /\ BodyOf(q).resetSeconds <= 0

(* C6: a request whose limiter call failed has failed: it got no answer from *)
(* the limiter, and its body is not parsed, the model is not called and no   *)
(* search request is sent for it.                                            *)
C6_FailsClosed ==
  \A q \in Requests :
    q.allowed = "unknown" =>
      /\ q.pc \in {"AdmissionCheck", "Failed"}
      /\ ~q.parsed /\ q.modelCalls = 0 /\ q.sent = <<>>

C6_Witness ==
  \E q \in Requests : q.pc = "Failed" /\ q.allowed = "unknown"

-----------------------------------------------------------------------------
(* Properties of the searchProducts tool *)

Called(q) == q.sent # <<>>
ArgsOf(q) == ValueOf(q.args)
ParamsOf(q) == q.sent[1].params
HasFilter(q) == "filter_by" \in DOMAIN ParamsOf(q)

(* The filter expression as the backend reads it: clauses separated by && *)
ClausesOf(q) == IF HasFilter(q) THEN Split(ParamsOf(q)["filter_by"], "&&") ELSE <<>>

NumPresent(a) ==
  (IF IsPresent(a.brand) THEN 1 ELSE 0) + (IF IsPresent(a.priceMax) THEN 1 ELSE 0)
    + (IF IsPresent(a.priceMin) THEN 1 ELSE 0)

(* C7 as stated, for the tool of part_003: every filter present in the       *)
(* arguments contributes exactly one clause, absent filters contribute none, *)
(* and with no filter present no filter expression is sent.                  *)
C7_Original ==
  \A q \in Requests :
    (route = "part_003" /\ Called(q)) =>
      IF NumPresent(ArgsOf(q)) = 0
      THEN ~HasFilter(q)
      ELSE /\ HasFilter(q)
           /\ Len(ClausesOf(q)) = NumPresent(ArgsOf(q))
           /\ \A i \in 1..Len(ClausesOf(q)) : ClausesOf(q)[i] # <<>>

C9_Original ==
  \A q \in Requests :
    Called(q) =>
      /\ ArgsOf(q).query # <<>>
      /\ (IsPresent(ArgsOf(q).priceMin) /\ IsPresent(ArgsOf(q).priceMax)) =>
           ValueOf(ArgsOf(q).priceMin) <= ValueOf(ArgsOf(q).priceMax)

(* The searchable fields with their weights, as the backend pairs them *)
FieldWeight(q, field) ==
  LET fields == Split(ParamsOf(q)["query_by"], ",")
      weights == Split(ParamsOf(q)["query_by_weights"], ",")
      i == CHOOSE j \in 1..Len(fields) : fields[j] = <<field>>
  IN ParseInt(weights[i])

(* C10: a tool invocation sends exactly one request to the search backend,   *)
(* none before execute runs; the request carries the query, per_page = 10,   *)
(* sort_by = top:desc,percent_offer:desc, and on part_003 the title field    *)
(* weighs more than the combined text field.                                 *)
C10_OneRequest ==
  \A q \in Requests :
    /\ q.pc = "ToolInvocation" => Len(q.sent) = 0
    /\ (IsPresent(q.args) /\ q.pc # "ToolInvocation") =>
         /\ Len(q.sent) = 1
         /\ q.sent[1].method = "GET"
         /\ ParamsOf(q)["q"] = ArgsOf(q).query
         /\ ParseInt(ParamsOf(q)["per_page"]) = 10
         /\ Split(ParamsOf(q)["sort_by"], ",") =
              << <<"top", ":", "desc">>, <<"percent_offer", ":", "desc">> >>
         /\ route = "part_003" =>
              /\ Len(Split(ParamsOf(q)["query_by"], ",")) =
                   Len(Split(ParamsOf(q)["query_by_weights"], ","))
              /\ FieldWeight(q, "title_infix") > FieldWeight(q, "combined_text")

C10_Witness ==
  \E q \in Requests :
    /\ route = "part_003" /\ q.pc = "Completed" /\ Len(q.sent) = 1
    /\ ParamsOf(q)["q"] = <<"televisor led 55">> /\ ~HasFilter(q)

-----------------------------------------------------------------------------
(* Properties of the backend's answer and of the compressed output *)

AnswerOf(q) == ValueOf(q.answer)
Answered(q) == IsPresent(q.answer)
Success(st) == st >= 200 /\ st <= 299

(* C11 as stated: when fetch rejects, or resolves with a status that is not  *)
(* a success, the tool invocation ends in an error and returns no output.    *)
C11_Original ==
  \A q \in Requests :
    /\ (Answered(q) /\ ~Success(AnswerOf(q).status)) =>
         (q.pc = "Failed" /\ ~IsPresent(q.output))
    /\ (q.pc = "Failed" /\ Called(q)) => ~IsPresent(q.output)

(* The tool returned the compressed text of a result (part_003). *)
Compressed(q) == route = "part_003" /\ q.pc = "Completed" /\ IsPresent(q.output)
InputOf(q) == AnswerOf(q).data
TextOf(q) == ValueOf(q.output).markdown
HitOf(q, i) == InputOf(q).hits[i].document

(* The output as its consumer reads it: the position of a token, the text    *)
(* between two tokens, the table rows after the header's rule, the cells of  *)
(* a row.                                                                    *)
IndexOf(s, tok) == CHOOSE i \in 1..Len(s) : s[i] = tok /\ \A j \in 1..(i - 1) : s[j] # tok
Between(s, a, b) ==
  LET rest == SubSeq(s, IndexOf(s, a) + 1, Len(s))
  IN SubSeq(rest, 1, IndexOf(rest, b) - 1)
TableRule == "|-------|-------|-------|-------|----------|-------|--------|\n"
RowsOf(text) ==
  LET lines == Split(SubSeq(text, IndexOf(text, TableRule) + 1, Len(text)), " |\n")
  IN SubSeq(lines, 1, Len(lines) - 1)
CellsOf(row) == Split(Tail(row), " | ")
QueryOf(text) == Between(text, "*Query: \"", "\" - Found: ")
FoundOf(text) == ParseInt(Between(text, "\" - Found: ", " (Page "))
PageOf(text) == ParseInt(Between(text, " (Page ", ")*\n\n"))

(* The table of q's output, row by row and cell by cell, and its rows that   *)
(* read as the seven cells of the table, by the position of their hit        *)
TableOf(q) ==
  LET rows == RowsOf(TextOf(q))
  IN [i \in 1..Len(rows) |-> IF Len(rows[i]) > 0 THEN CellsOf(rows[i]) ELSE <<>>]
ReadableRows(q, table) ==
  {i \in 1..Len(table) : i <= Len(InputOf(q).hits) /\ Len(table[i]) = 7}

(* C12: when the backend answers a search with no hits, the tool's output    *)
(* reports zero matches: the compressed text has a header with Found: 0 and  *)
(* no rows (the raw result of part_002 has found = 0 and no hits); and an    *)
(* output never has more rows than the backend returned hits, each row       *)
(* carrying the title of its hit.                                            *)
C12_ZeroMatches ==
  \A q \in Requests :
    /\ (q.pc = "Completed" /\ Answered(q) /\ Success(AnswerOf(q).status)
          /\ InputOf(q).hits = <<>>) =>
         IF route = "part_003"
         THEN FoundOf(TextOf(q)) = 0 /\ RowsOf(TextOf(q)) = <<>>
         ELSE ValueOf(q.output).data.found = 0 /\ ValueOf(q.output).data.hits = <<>>
    /\ Compressed(q) =>
         LET table == TableOf(q)
         IN /\ Len(table) <= Len(InputOf(q).hits)
            /\ \A i \in ReadableRows(q, table) :
                 table[i][1] = TemplateString(HitOf(q, i).title)

C12_Witness ==
  \E q \in Requests :
    /\ Compressed(q) /\ InputOf(q).hits = <<>>
    /\ TextOf(q)[Len(TextOf(q))] = TableRule

(* The entries of a feature cell, and the entries the document's properties  *)
(* ask for: the ones whose key starts with f. and whose value is not the     *)
(* sentinel, as name: value                                                  *)
EntriesOf(cell) ==
  LET entries == Split(cell, ", ")
  IN {entries[k] : k \in 1..Len(entries)} \ {<<>>}
FeatureAttrs(doc) ==
  {a \in {doc.attrs[k] : k \in 1..Len(doc.attrs)} :
     /\ Len(a.key) >= 2 /\ a.key[1] = "f" /\ a.key[2] = "."
     /\ a.value # <<"NO ESPECIFICA">>}
NamedEntry(a) == SubSeq(a.key, 3, Len(a.key)) \o <<": ">> \o a.value

(* C13: for every hit, the feature cell of its row holds exactly the entries *)
(* of the hit's properties whose key starts with f. and whose value is not   *)
(* NO ESPECIFICA: every such property is in it, and no property without the  *)
(* prefix or with the sentinel value is.                                     *)
C13_FeatureString ==
  \A q \in Requests :
    Compressed(q) =>
      LET table == TableOf(q)
      IN \A i \in ReadableRows(q, table) :
           EntriesOf(table[i][5]) = {NamedEntry(a) : a \in FeatureAttrs(HitOf(q, i))}

(* A hit with a feature and an unspecified feature: only the first is shown. *)
C13_Witness ==
  \E q \in Requests :
    /\ Compressed(q)
    /\ \E i \in ReadableRows(q, TableOf(q)) :
         /\ \E k \in 1..Len(HitOf(q, i).attrs) :
              /\ HitOf(q, i).attrs[k].value = <<"NO ESPECIFICA">>
              /\ HitOf(q, i).attrs[k].key[1] = "f"
         /\ TableOf(q)[i][5] = <<"t", "v", ": ", "OLED">>

(* The number of characters of a string, and of JSON.stringify of a result   *)
RECURSIVE Chars(_)
Chars(s) == IF Len(s) = 0 THEN 0 ELSE Len(Head(s)) + Chars(Tail(s))
RECURSIVE SumSeq(_)
SumSeq(ns) == IF Len(ns) = 0 THEN 0 ELSE Head(ns) + SumSeq(Tail(ns))
JsonList(sizes) == 2 + SumSeq(sizes) + (IF Len(sizes) = 0 THEN 0 ELSE Len(sizes) - 1)
JsonString(s) == 2 + Chars(s)
JsonField(name, size) == <<Len(name) + 3 + size>>
JsonOptional(name, o) == IF IsPresent(o) THEN JsonField(name, JsonString(ValueOf(o))) ELSE <<>>
JsonStrings(name, o) ==
  IF IsPresent(o)
  THEN JsonField(name, JsonList([k \in 1..Len(ValueOf(o)) |-> JsonString(ValueOf(o)[k])]))
  ELSE <<>>
JsonDocument(doc) ==
  JsonList(JsonOptional("title", doc.title) \o JsonOptional("brand", doc.brand)
             \o JsonOptional("repmodel", doc.repmodel)
             \o (IF IsPresent(doc.bestprice)
                 THEN JsonField("bestprice", Len(NumberToString(ValueOf(doc.bestprice))))
                 ELSE <<>>)
             \o [k \in 1..Len(doc.attrs) |->
                   Len(doc.attrs[k].key) + 3 + JsonString(doc.attrs[k].value)]
             \o JsonStrings("images", doc.images) \o JsonStrings("stores", doc.stores)
             \o JsonOptional("topstore", doc.topstore)
             \o JsonOptional("url_compy", doc.url_compy) \o JsonOptional("url", doc.url))
JsonResult(data) ==
  JsonList(JsonField("found", Len(NumberToString(data.found)))
             \o JsonField("hits",
                  JsonList([k \in 1..Len(data.hits) |->
                              JsonList(JsonField("document",
                                                 JsonDocument(data.hits[k].document)))]))
             \o JsonField("page", Len(NumberToString(data.page)))
             \o JsonField("request_params",
                  JsonList(JsonField("q", JsonString(data.request_params.q)))))

(* C14 as stated: the compressed text is never longer than the JSON text of  *)
(* the result it was made from.                                              *)
C14_Original ==
  \A q \in Requests :
    Compressed(q) => Chars(TextOf(q)) <= JsonResult(InputOf(q))

Occurs(s, text) == \E j \in 1..Len(text) : SubSeq(text, j, j + Len(s) - 1) = s
ImagesOf(doc) == IF IsPresent(doc.images) THEN ValueOf(doc.images) ELSE <<>>

(* C15: the row of a hit shows at most one image, in its image cell: the     *)
(* first element of the hit's image list when the list is not empty (an      *)
(* empty first element shows as no image), and nothing when the list is      *)
(* absent or empty; no other image of the hit occurs in the row.             *)
C15_OneImage ==
  \A q \in Requests :
    Compressed(q) =>
      LET table == TableOf(q)
          rows == RowsOf(TextOf(q))
      IN \A i \in ReadableRows(q, table) :
           LET imgs == ImagesOf(HitOf(q, i))
           IN /\ table[i][6] =
                   IF Len(imgs) > 0 /\ Len(imgs[1]) > 0
                   THEN <<"![Image](">> \o imgs[1] \o <<")">> ELSE <<>>
              /\ Cardinality({j \in 1..Len(rows[i]) : rows[i][j] = "![Image]("}) <= 1
              /\ \A k \in 2..Len(imgs) :
                   (imgs[k] # imgs[1] /\ Len(imgs[k]) > 0) => ~Occurs(imgs[k], rows[i])

C15_Witness ==
  \E q \in Requests :
    /\ Compressed(q)
    /\ \E i \in ReadableRows(q, TableOf(q)) :
         /\ Len(ImagesOf(HitOf(q, i))) = 2
         /\ TableOf(q)[i][6] = <<"![Image](", "http://img/1", ")">>

(* C16 as stated: the output carries, for every hit, its canonical URL:      *)
(* url_compy when the hit has one, url otherwise.                            *)
C16_Original ==
  \A q \in Requests :
    Compressed(q) =>
      \A i \in 1..Len(InputOf(q).hits) :
        LET doc == HitOf(q, i)
            canonical == IF IsPresent(doc.url_compy) THEN doc.url_compy ELSE doc.url
        IN (IsPresent(canonical) /\ Len(ValueOf(canonical)) > 0) =>
             Occurs(ValueOf(canonical), TextOf(q))

(* C17 as stated: the store cell of a hit is its store list when the hit has *)
(* store entries and its top store when it has none, and is not empty when   *)
(* the hit names a top store.                                                *)
C17_Original ==
  \A q \in Requests :
    Compressed(q) =>
      LET table == TableOf(q)
      IN \A i \in ReadableRows(q, table) :
           LET doc == HitOf(q, i)
               entries == IF IsPresent(doc.stores) THEN ValueOf(doc.stores) ELSE <<>>
           IN /\ table[i][7] =
                   IF Len(entries) > 0 THEN Join(entries, ", ")
                   ELSE IF IsPresent(doc.topstore) THEN ValueOf(doc.topstore) ELSE <<>>
              /\ TruthyString(doc.topstore) => table[i][7] # <<>>

(* C18: every output starts with the title line and the summary line, which  *)
(* states the query, the backend's found count and the page, before the      *)
(* table; a found count larger than the number of rows is shown as it is.    *)
C18_Header ==
  \A q \in Requests :
    Compressed(q) =>
      LET text == TextOf(q)
      IN /\ text[1] = "## Product Search Results\n"
         /\ text[2] = "*Query: \""
         /\ QueryOf(text) = InputOf(q).request_params.q
         /\ FoundOf(text) = InputOf(q).found
         /\ PageOf(text) = InputOf(q).page
         /\ IndexOf(text, ")*\n\n") < IndexOf(text, TableRule)

C18_Witness ==
  \E q \in Requests :
    /\ Compressed(q)
    /\ FoundOf(TextOf(q)) = 25 /\ Len(RowsOf(TextOf(q))) = 10
    /\ QueryOf(TextOf(q)) = <<"televisor led 55">>

-----------------------------------------------------------------------------
(* Properties of the price metrics the catalogue script writes *)

(* C22, as the specification states it: in every price record the program    *)
(* produces, the historical minimum is at most the current price (a stored   *)
(* minimum above the current price is replaced by the current price), so the *)
(* percentage above the minimum is never negative.                           *)
C22_Original ==
  \A q \in Requests :
    (q.pc = "Embedded" /\ IsPresent(ValueOf(q.embedded).metadata.price_history))
    => LET h == ValueOf(ValueOf(q.embedded).metadata.price_history)
       IN /\ h.minimum <= h.current
          /\ (h.current - h.minimum) * 100 >= 0

-----------------------------------------------------------------------------
(* Properties of the conversation turn *)

Terminal(q) == q.pc \in {"Rejected", "Completed", "Failed"}
CountOf(kind, parts) == Cardinality({i \in 1..Len(parts) : parts[i] = kind})
Conversation(q) == q.messages \o q.streamed

(* C23: a turn never makes more than 3 rounds of tool calls, nor more than 3 *)
(* model calls; a turn that has made its 3 rounds is not continued: it ends  *)
(* completed, with the result of the last round as its last answer.          *)
C23_RoundBound ==
  \A q \in Requests :
    /\ Rounds(q) <= 3
    /\ q.modelCalls <= 3
    /\ CountOf("tool-call", Conversation(q)) <= 3
    /\ (Rounds(q) = 3 /\ q.pc = "Completed")
         => (~Continues(q) /\ IsPresent(q.output) /\ HasToolResult(q.streamed))

(* The model asked for the tool three times and the fourth round is refused *)
C23_Witness ==
  \E q \in Requests :
    /\ Rounds(q) = 3 /\ q.pc = "Completed" /\ q.connected
    /\ HasToolResult(q.streamed)
    /\ CountOf("tool-result", Conversation(q)) = 3

(* The turn is over: the request is in a terminal state and the chat page    *)
(* does not go on, because the model answered without a tool call, the       *)
(* rounds are used up, the caller is gone, or the request was rejected or    *)
(* failed.                                                                   *)
TurnOver(q) ==
  /\ Terminal(q)
  /\ ~Continues(q)
  /\ \/ q.pc \in {"Rejected", "Failed"}
     \/ ~HasToolResult(q.streamed)
     \/ Rounds(q) = 3
     \/ ~q.connected

(* C24: every turn is eventually over, and stays so, whatever the model      *)
(* does: the loop of model turns and tool calls does not go on forever.      *)
C24_Terminates == <>[](\A q \in Requests : TurnOver(q))

(* A turn of two rounds ended by a model turn without a tool call *)
C24_Witness ==
  \E q \in Requests :
    /\ q.pc = "Completed" /\ Rounds(q) = 2 /\ q.modelCalls = 3
    /\ q.streamed = <<"text">>

C26_FailedIsTerminal ==
  [][\A q \in Requests : \A q2 \in Requests' :
       /\ q.pc = "Failed" => q2 = q
       /\ (q.pc # "Failed" /\ q2.pc = "Failed") =>
            /\ q2.streamed \in {q.streamed, Append(q.streamed, "error")}
            /\ q2.sent = q.sent /\ q2.output = q.output
       /\ (q.pc = "AdmissionCheck" /\ q2.pc \notin {"AdmissionCheck", "Failed"}) =>
            IsPresent(q2.lim)
       /\ (q.pc = "ModelTurn" /\ q2.pc \notin {"ModelTurn", "Failed"}) =>
            q2.streamed \in {Append(q.streamed, "text"), Append(q.streamed, "tool-call")}
       /\ (q.pc = "AwaitSearch" /\ q2.pc \notin {"AwaitSearch", "Failed"}) =>
            (Answered(q2) /\ AnswerOf(q2).json /\ Success(AnswerOf(q2).status))
    ]_vars

(* The search of the second round failed after its tool call was streamed *)
C26_Witness ==
  \E q \in Requests :
    /\ q.pc = "Failed" /\ ~Answered(q)
    /\ q.streamed = <<"tool-call", "error">>
    /\ Rounds(q) = 2

(* C27, as the specification states it: once the caller has disconnected,    *)
(* the model call and the search call of the request are given up: no answer *)
(* of the backend is read, no result is compressed and no part is produced   *)
(* for the request any more.                                                 *)
C27_Original ==
  [][\A q \in Requests : \A q2 \in Requests' :
       ~q.connected =>
         /\ q2.answer = q.answer
         /\ q2.output = q.output
         /\ q2.modelCalls = q.modelCalls
         /\ q2.pc \in {q.pc, "Failed"}
    ]_vars

-----------------------------------------------------------------------------
(* Properties of the rows of the compressed table *)

(* The text after the rule of the table's header *)
TableBody(text) == SubSeq(text, IndexOf(text, TableRule) + 1, Len(text))

StoresOf(doc) == IF IsPresent(doc.stores) THEN ValueOf(doc.stores) ELSE <<>>

(* row is a row of the document doc: it starts with the title and the brand  *)
(* of doc, ends the line, and carries the entries of doc's features, its     *)
(* first image and its stores.                                               *)
IsRowOf(row, doc) ==
  /\ startsWith(row, <<"| ">> \o TemplateString(doc.title) \o <<" | ">>
                       \o TemplateString(doc.brand) \o <<" | ">>)
  /\ row[Len(row)] = " |\n"
  /\ \A a \in FeatureAttrs(doc) : Occurs(NamedEntry(a), row)
  /\ (Len(ImagesOf(doc)) > 0 /\ Len(ImagesOf(doc)[1]) > 0) => Occurs(ImagesOf(doc)[1], row)
  /\ \A i \in 1..Len(StoresOf(doc)) : Occurs(StoresOf(doc)[i], row)

(* body is made of one row for each hit, in the order of the hits, and of    *)
(* nothing else                                                              *)
RECURSIVE RowsMatch(_, _)
RowsMatch(body, hits) ==
  IF Len(hits) = 0 THEN Len(body) = 0
  ELSE \E k \in 1..Len(body) :
         /\ body[k] = " |\n"
         /\ IsRowOf(SubSeq(body, 1, k), hits[1].document)
         /\ RowsMatch(SubSeq(body, k + 1, Len(body)), Tail(hits))

(* C28: the table of a compressed result is made of exactly one row for each *)
(* hit of the backend's answer, in the order of the hits: no hit is dropped, *)
(* repeated or moved.                                                        *)
C28_RowPerHit ==
  \A q \in Requests :
    Compressed(q) => RowsMatch(TableBody(TextOf(q)), InputOf(q).hits)

(* Two different hits, the first without a title *)
C28_Witness ==
  \E q \in Requests :
    /\ Compressed(q)
    /\ Len(InputOf(q).hits) = 2
    /\ HitOf(q, 1) = EmptyDocument
    /\ HitOf(q, 2) # EmptyDocument /\ Len(HitOf(q, 2).attrs) > 0

(* C29, as stated: every row of the table reads as exactly the 7 cells of    *)
(* the header, one line for each hit, whatever the fields of the hit hold    *)
(* (the cell delimiter included) and when fields are missing.                *)
C29_Original ==
  \A q \in Requests :
    Compressed(q) =>
      LET table == TableOf(q)
      IN /\ Len(table) = Len(InputOf(q).hits)
         /\ \A i \in 1..Len(table) : Len(table[i]) = 7

-----------------------------------------------------------------------------
(* Properties of the middleware *)

AllowOrigin == "Access-Control-Allow-Origin"
Listed(o) ==
  o \in {"http://localhost:5173", "https://compy.cueva.io", "https://dev.compy.pe",
         "https://compy.pe"}

(* C30: the Access-Control-Allow-Origin header of a response of the          *)
(* middleware is absent or a listed origin; it is the origin the request     *)
(* sent only when that origin is listed; a preflight gets the header in any  *)
(* case, with the first listed origin when its own is not listed; another    *)
(* request with an origin that is not listed gets no such header.            *)
C30_AllowList ==
  \A q \in Requests :
    q.pc = "Passed" =>
      LET headers == ValueOf(q.response).headers
          sent == IF IsPresent(q.origin) THEN ValueOf(q.origin) ELSE ""
      IN /\ AllowOrigin \in DOMAIN headers => Listed(headers[AllowOrigin])
         /\ (AllowOrigin \in DOMAIN headers /\ IsPresent(q.origin)
               /\ headers[AllowOrigin] = ValueOf(q.origin)) => Listed(sent)
         /\ Listed(sent) =>
              (AllowOrigin \in DOMAIN headers /\ headers[AllowOrigin] = sent)
         /\ (q.method = "OPTIONS" /\ ~Listed(sent)) =>
              (AllowOrigin \in DOMAIN headers
                 /\ headers[AllowOrigin] = "http://localhost:5173")
         /\ (q.method # "OPTIONS" /\ ~Listed(sent)) => AllowOrigin \notin DOMAIN headers

(* A preflight from an origin that is not listed, and one that starts like a *)
(* listed origin, have been answered                                         *)
C30_Witness ==
  /\ \E q \in Requests :
       /\ q.pc = "Passed" /\ q.method = "OPTIONS"
       /\ q.origin = Some("https://evil.example")
       /\ ValueOf(q.response).status = 204
  /\ \E q \in Requests :
       /\ q.pc = "Passed" /\ q.method = "POST"
       /\ q.origin = Some("https://compy.pe.evil.example")

====
